---- MODULE Spec2Model ----
(***************************************************************************)
(* PNGProtect: the LSB watermark codec of                                  *)
(* backend/app/services/watermarking.py, the verdict of                    *)
(* backend/app/routes/verify.py and the adversarial protection of          *)
(* backend/app/routes/protection.py and services/adversarial.py.           *)
(*                                                                         *)
(* A text is a sequence of code points (ord of each character), a          *)
(* bitstream a sequence over {0,1}, and an RGB image its flattened         *)
(* (row, column, channel) sequence of 8-bit samples, whose length is       *)
(* height*width*3.  match_ratio is kept in hundredths (1.0 is 100).        *)
(* Loops over long sequences are unfolded by halving the index range, in   *)
(* the order of the loop, which keeps the evaluation of 2000 iterations    *)
(* shallow.                                                                *)
(***************************************************************************)
EXTENDS Integers, Sequences, FiniteSets, TLC

VARIABLES image, origin, watermarked, call, ret,
          flipped, classifier, workers, frames,
          bulk_operations, bulk_task, users, sessions, issued, now

vars == <<image, origin, watermarked, call, ret,
          flipped, classifier, workers, frames,
          bulk_operations, bulk_task, users, sessions, issued, now>>

\* The state of the dashboard and of the user store.
services == <<bulk_operations, bulk_task, users, sessions, issued, now>>

\* The state the single-request steps on `image` leave alone.
others == <<flipped, classifier, workers, frames, services>>

(***************************************************************************)
(* Bounds of the model.                                                    *)
(***************************************************************************)
MaxIdLen == 1
MaxStrength == 3
MaxExampleStrength == 140

(***************************************************************************)
(* Program constants.                                                      *)
(***************************************************************************)
ScanCap == 16000
DELIM == <<64, 64, 64, 64>>
Unknown == <<85, 110, 107, 110, 111, 119, 110>>
RatioFound == 100
RatioNotFound == 10

(***************************************************************************)
(* Helpers on sequences.                                                   *)
(***************************************************************************)
Min(a, b) == IF a < b THEN a ELSE b

\* ''.join(ss[lo..hi]), and ''.join(ss)
RECURSIVE JoinRange(_, _, _)
JoinRange(ss, lo, hi) ==
  IF lo > hi THEN <<>>
  ELSE IF lo = hi THEN ss[lo]
  ELSE LET mid == (lo + hi) \div 2
       IN JoinRange(ss, lo, mid) \o JoinRange(ss, mid + 1, hi)

Join(ss) == JoinRange(ss, 1, Len(ss))

\* Python's str * int: n copies end to end, the empty string when n <= 0.
RECURSIVE Repeat(_, _)
Repeat(s, n) == IF n <= 0 THEN <<>> ELSE Repeat(s, n - 1) \o s

\* The non-empty string sub occurs in s at index i.
OccursAt(s, sub, i) == s[i] = sub[1] /\ SubSeq(s, i, i + Len(sub) - 1) = sub

\* Python's `sub in s` on strings.
Contains(s, sub) == \E i \in 1..(Len(s) - Len(sub) + 1) : OccursAt(s, sub, i)

\* Python's s.split(sub)[0]: the part of s before the first occurrence of sub.
SplitFirst(s, sub) ==
  IF Contains(s, sub)
  THEN LET first == CHOOSE i \in 1..(Len(s) - Len(sub) + 1) :
                      /\ OccursAt(s, sub, i)
                      /\ \A j \in 1..(i - 1) : ~OccursAt(s, sub, j)
       IN SubSeq(s, 1, first - 1)
  ELSE s

(***************************************************************************)
(* format(n, '08b'): the binary digits of n, most significant first,       *)
(* zero-padded on the left to a width of at least 8.                       *)
(***************************************************************************)
RECURSIVE ToBinary(_)
ToBinary(n) == IF n < 2 THEN <<n>> ELSE Append(ToBinary(n \div 2), n % 2)

Format08b(n) ==
  LET digits == ToBinary(n)
  IN IF Len(digits) >= 8 THEN digits
     ELSE [i \in 1..(8 - Len(digits)) |-> 0] \o digits

\* Mutant: the digits read least significant first.
RECURSIVE IntBase2LsbFirst(_)
IntBase2LsbFirst(b) ==
  IF b = <<>> THEN 0 ELSE b[1] + 2 * IntBase2LsbFirst(Tail(b))

\* int(b, 2) of a non-empty string of binary digits.
RECURSIVE IntBase2(_)
IntBase2(b) ==
  IF b = <<>> THEN 0 ELSE 2 * IntBase2(SubSeq(b, 1, Len(b) - 1)) + b[Len(b)]

(***************************************************************************)
(* Bit operations of the embed loop on non-negative integers.              *)
(***************************************************************************)
\* x & 0xFE: bits 1..7 of x.
AndFE(x) == ((x \div 2) % 128) * 2
\* y | b for a bit b.
OrBit(y, b) == IF y % 2 = 1 THEN y ELSE y + b
\* x & 0xFF followed by astype(uint8).
AndFF(x) == x % 256

(***************************************************************************)
(* embed_watermark_lsb(image, watermark_text, strength).                   *)
(* The result records the exception or the returned pair, and `input`,     *)
(* the caller's pixel buffer as the call leaves it.                        *)
(***************************************************************************)
BinaryData(watermark_text, strength) ==
  LET data == watermark_text \o DELIM
      binary_data == Join([k \in 1..Len(data) |-> Format08b(data[k])])
  IN Repeat(binary_data, strength)

\* Mutant: the boundary rejected (>= for >).
CapacityExceededGe(binary_data, flat) == Len(binary_data) >= Len(flat)

\* Mutant: the payload compared with the pixel count, not the sample count.
CapacityExceededPixels(binary_data, flat) == Len(binary_data) > Len(flat) \div 3

\* len(binary_data) > len(flat)
CapacityExceeded(binary_data, flat) == Len(binary_data) > Len(flat)

\* Mutant: the mask 0xFC for 0xFE, clearing the two lowest bits.
WriteBitFC(sample, bit) == OrBit(((sample \div 4) % 64) * 4, bit)

\* flat[i] = (int(flat[i]) & 0xFE) | int(binary_data[i])
WriteBit(sample, bit) == OrBit(AndFE(sample), bit)

\* Mutant: the call works on a view of the caller's array, not a copy.
CallerBufferView(img, written) == written

\* The caller's image after np.array(image, dtype=np.uint16) and
\* pixels.flatten() gave the call its own buffer `written` to work on:
\* both copy, so the caller's samples stay as they were.
CallerBuffer(img, written) == img

embed_watermark_lsb(img, watermark_text, strength) ==
  LET binary_data == BinaryData(watermark_text, strength)
      flat == img
  IN IF CapacityExceeded(binary_data, flat)
     THEN [status |-> "ValueError", input |-> img]
     ELSE LET written == [i \in 1..Len(flat) |->
                            IF i <= Len(binary_data)
                            THEN WriteBit(flat[i], binary_data[i])
                            ELSE flat[i]]
              modified_pixels == [i \in 1..Len(flat) |-> AndFF(written[i])]
          IN [status |-> "ok", input |-> CallerBuffer(img, written),
              watermarked_image |-> modified_pixels,
              binary_data |-> binary_data]

(***************************************************************************)
(* extract_watermark_lsb(image).                                           *)
(***************************************************************************)
\* Mutant: the scan not capped, every sample read.
ExtractBitsNoCap(flat) == Join([i \in 1..Len(flat) |-> <<flat[i] % 2>>])

\* binary_data: "".join of str(int(flat[i]) & 1) for the first
\* min(len(flat), 16000) samples
ExtractBits(flat) ==
  Join([i \in 1..Min(Len(flat), ScanCap) |-> <<flat[i] % 2>>])

\* all_bytes: groups of 8 bits, the last one shorter when the length is
\* not a multiple of 8
AllBytes(binary_data) ==
  [k \in 1..((Len(binary_data) + 7) \div 8) |->
     SubSeq(binary_data, 8 * (k - 1) + 1, Min(8 * k, Len(binary_data)))]

\* Mutant: a group of fewer than 8 digits taken as one that does not decode.
DecodeRaisesShort(b) == Len(b) < 8

\* chr(int(b, 2)) raises: int() on an empty string (ValueError), chr() on a
\* value above 0x10FFFF (ValueError).
DecodeRaises(b) == b = <<>> \/ IntBase2(b) > 1114111

\* Mutant: the loop returns once the second copy of the payload is complete,
\* with the text between the first two delimiters.
LoopStepSecondCopy(all_bytes, k, st) ==
  LET b == all_bytes[k]
      decoded == Append(st.decoded, IntBase2(b))
      rest == SubSeq(decoded, Len(SplitFirst(decoded, DELIM)) + 5, Len(decoded))
  IN IF DecodeRaises(b) THEN st
     ELSE IF Contains(decoded, DELIM) /\ Contains(rest, DELIM)
     THEN [returned |-> TRUE, decoded |-> decoded,
           text |-> SplitFirst(rest, DELIM), match_ratio |-> RatioFound]
     ELSE [st EXCEPT !.decoded = decoded]

\* One iteration of the for loop over all_bytes: group k, with the loop's
\* state st (the string decoded so far, and the value returned if any).
\* A group that raises is skipped by the bare except (continue).
LoopStep(all_bytes, k, st) ==
  LET b == all_bytes[k]
      decoded == Append(st.decoded, IntBase2(b))
  IN IF DecodeRaises(b) THEN st
     ELSE IF Contains(decoded, DELIM)
     THEN [returned |-> TRUE, decoded |-> decoded,
           text |-> SplitFirst(decoded, DELIM), match_ratio |-> RatioFound]
     ELSE [st EXCEPT !.decoded = decoded]

\* Iterations lo..hi of the loop in order, stopping at the first return.
RECURSIVE DecodeLoop(_, _, _, _)
DecodeLoop(all_bytes, lo, hi, st) ==
  IF st.returned \/ lo > hi THEN st
  ELSE IF lo = hi THEN LoopStep(all_bytes, lo, st)
  ELSE LET mid == (lo + hi) \div 2
       IN DecodeLoop(all_bytes, mid + 1, hi, DecodeLoop(all_bytes, lo, mid, st))

\* Mutant: a failed search reported with match_ratio 0.0.
extract_watermark_lsb_zero(flat) ==
  LET all_bytes == AllBytes(ExtractBits(flat))
      st == DecodeLoop(all_bytes, 1, Len(all_bytes),
                       [returned |-> FALSE, decoded |-> <<>>,
                        text |-> Unknown, match_ratio |-> 0])
  IN [status |-> "ok", text |-> st.text, match_ratio |-> st.match_ratio]

extract_watermark_lsb(flat) ==
  LET all_bytes == AllBytes(ExtractBits(flat))
      st == DecodeLoop(all_bytes, 1, Len(all_bytes),
                       [returned |-> FALSE, decoded |-> <<>>,
                        text |-> Unknown, match_ratio |-> RatioNotFound])
  IN [status |-> "ok", text |-> st.text, match_ratio |-> st.match_ratio]

(***************************************************************************)
(* State.                                                                  *)
(*   image   the RGB pixel buffer the caller holds                         *)
(*   origin  the (text, strength) of the embed call whose returned image   *)
(*           `image` is, untouched since; NoOrigin otherwise               *)
(*   watermarked  whether `image` is, or comes from, an image that an      *)
(*           Embed step returned                                           *)
(*   call    the call whose result `ret` holds, with its arguments;        *)
(*           NoCall when idle                                              *)
(*   ret     what the last call returned or raised                         *)
(*   flipped the (text, strength) of the embed call that produced `image`  *)
(*           and the sample whose least-significant bit was flipped since; *)
(*           NoFlip otherwise                                              *)
(*   classifier  the state of the ResNet18 model the protection route      *)
(*           loads once and every protect call uses                        *)
(*   workers the embed and extract calls running concurrently, each with   *)
(*           its position, arguments and result                            *)
(*   frames  the local variables of these calls                            *)
(*   bulk_operations  the dict of the dashboard: operation id to status    *)
(*           and counters                                                  *)
(*   bulk_task  the background task of each operation: its position, its   *)
(*           arguments and the statuses it assigned so far                 *)
(*   users   the users table: email to id and password                     *)
(*   sessions  the user_sessions table: token to user id and expiry        *)
(*   issued  for each token create_session returned: the user and the time *)
(*           it was issued to and at, and the route that issued it         *)
(*   now     the clock datetime.utcnow() reads, in days                    *)
(***************************************************************************)
NoOrigin == [text |-> <<>>, strength |-> 0]
NoCall == [op |-> "none"]
NoRet == [status |-> "none"]

NoFlip == [text |-> <<>>, strength |-> 0, site |-> 0]

\* models.resnet18(weights=IMAGENET1K_V1) after .eval(): the weights as
\* loaded, no parameter gradient yet.
NoGrad == [loss_of |-> <<>>]
LoadedClassifier ==
  [weights |-> "IMAGENET1K_V1", training |-> FALSE, grad |-> NoGrad]

\* The concurrent calls of the codec, at most NumWorkers at a time.
NumWorkers == 2
Workers == 1..NumWorkers
IdleWorker == [pc |-> "idle"]
NoFrame == [flat |-> <<>>, binary_data |-> <<>>]

OthersInit ==
  /\ flipped = NoFlip
  /\ classifier = LoadedClassifier
  /\ workers = [t \in Workers |-> IdleWorker]
  /\ frames = [t \in Workers |-> NoFrame]
  /\ bulk_operations = <<>>
  /\ bulk_task = <<>>
  /\ users = <<>>
  /\ sessions = <<>>
  /\ issued = <<>>
  /\ now = 0

\* No call is in progress: requests are handled one at a time.
Idle == call.op = "none"

\* A sample with bit `bit` (0 is the LSB) toggled.
ToggleBit(sample, bit) ==
  IF (sample \div (2 ^ bit)) % 2 = 1 THEN sample - 2 ^ bit ELSE sample + 2 ^ bit

\* An image is watermarked once: the clients ask /verify/detect first, which
\* exists to prevent re-watermarking, so embed is applied to images that no
\* earlier Embed step produced (the initial images include one that carries
\* an earlier watermark).
Embed(watermark_text, strength) ==
  /\ Idle
  /\ ~watermarked
  /\ \E r \in {embed_watermark_lsb(image, watermark_text, strength)} :
       /\ image' = r.input
       /\ ret' = [f \in DOMAIN r \ {"input"} |-> r[f]]
  /\ call' = [op |-> "embed", input |-> image,
              text |-> watermark_text, strength |-> strength]
  /\ UNCHANGED <<origin, watermarked>>
  /\ UNCHANGED others

\* The returned image is saved as PNG (lossless) and is the image the
\* caller holds from now on.
Adopt ==
  /\ call.op = "embed"
  /\ ret.status = "ok"
  /\ image' = ret.watermarked_image
  /\ origin' = [text |-> call.text, strength |-> call.strength]
  /\ watermarked' = TRUE
  /\ call' = NoCall
  /\ ret' = NoRet
  /\ UNCHANGED others

\* The response is delivered and the caller keeps the image it has.
Return ==
  /\ call.op \in {"embed", "extract"}
  /\ call' = NoCall
  /\ ret' = NoRet
  /\ UNCHANGED <<image, origin, watermarked>>
  /\ UNCHANGED others

\* The image is modified between calls: one bit of one sample changes.
Tamper(site) ==
  /\ Idle
  /\ site[1] <= Len(image)
  /\ image' = [image EXCEPT ![site[1]] = ToggleBit(@, site[2])]
  /\ origin' = NoOrigin
  /\ call' = NoCall
  /\ ret' = NoRet
  /\ UNCHANGED watermarked
  /\ UNCHANGED others

Extract ==
  /\ Idle
  /\ ret' = extract_watermark_lsb(image)
  /\ call' = [op |-> "extract", input |-> image]
  /\ UNCHANGED <<image, origin, watermarked>>
  /\ UNCHANGED others

(***************************************************************************)
(* Inputs of the small specification.                                      *)
(***************************************************************************)
\* '@', 'A', and U+0100, a character outside Latin-1
Alphabet == {64, 65, 256}

RECURSIVE TextsOfLen(_)
TextsOfLen(n) ==
  IF n = 0 THEN {<<>>}
  ELSE {Append(t, c) : t \in TextsOfLen(n - 1), c \in Alphabet}

Identifiers == UNION {TextsOfLen(n) : n \in 0..MaxIdLen}
Strengths == 1..MaxStrength

\* 13 pixels whose LSBs spell "A@@@" and then the 7 bits 1000000
Image39 ==
  LET lsb == Format08b(65) \o Format08b(64) \o Format08b(64) \o Format08b(64)
             \o <<1, 0, 0, 0, 0, 0, 0>>
  IN [i \in 1..39 |-> 2 * ((i * 37) % 128) + lsb[i]]
\* 40 pixels of arbitrary samples, 255 and 0 among them
Image120 ==
  [i \in 1..120 |-> IF i = 1 THEN 255 ELSE IF i = 2 THEN 0 ELSE (i * 91) % 256]

\* the same 40 pixels carrying an earlier watermark, "A" with strength 2
Image120W == embed_watermark_lsb(Image120, <<65>>, 2).watermarked_image

InitImages == {Image39, Image120, Image120W}
\* sample 3 (flat[2]), its least-significant bit
TamperSites == {<<3, 0>>}

Init ==
  /\ image \in InitImages
  /\ origin = NoOrigin
  /\ watermarked = FALSE
  /\ call = NoCall
  /\ ret = NoRet
  /\ OthersInit

Next ==
  \/ \E t \in Identifiers, s \in Strengths : Embed(t, s)
  \/ Adopt
  \/ Return
  \/ \E site \in TamperSites : Tamper(site)
  \/ Extract

Spec == Init /\ [][Next]_vars

(***************************************************************************)
(* The example of the capacity check: "user-42" embedded into a 64x64      *)
(* image with each strength up to MaxExampleStrength.                      *)
(***************************************************************************)
\* "user-42"
UserId42 == <<117, 115, 101, 114, 45, 52, 50>>

Image64x64 == [i \in 1..(64 * 64 * 3) |-> (i * 7) % 256]

InitExample ==
  /\ image = Image64x64
  /\ origin = NoOrigin
  /\ watermarked = FALSE
  /\ call = NoCall
  /\ ret = NoRet
  /\ OthersInit

NextExample ==
  \/ \E s \in 1..MaxExampleStrength : Embed(UserId42, s)
  \/ Return

SpecExample == InitExample /\ [][NextExample]_vars

(***************************************************************************)
(* The scan window of extract: images of 48 pixels, read whole, and of     *)
(* 5347 pixels (16041 samples), read up to the cap.                        *)
(***************************************************************************)
\* The LSBs that spell "@@@@", written from flat[offset] on (offset from 0)
\* over samples whose other bits are those of `fill`.
WithDelimAt(n, offset, fill) ==
  LET bits == Join([k \in 1..4 |-> Format08b(DELIM[k])])
  IN [i \in 1..n |->
        IF i > offset /\ i <= offset + 32
        THEN AndFE(fill) + bits[i - offset]
        ELSE AndFE(fill)]

Image144At96 == WithDelimAt(144, 96, 254)
Image144At100 == WithDelimAt(144, 100, 254)
Image144At104 == WithDelimAt(144, 104, 254)
\* the delimiter entirely beyond the window, in flat[16000..16031]
ImageBeyondCap == WithDelimAt(ScanCap + 41, ScanCap, 6)

\* identifier + delimiter is 2001 bytes, one more than the window holds
LongId == [i \in 1..(ScanCap \div 8 - 3) |-> 65]
WindowIdentifiers == {LongId}

\* flat[0], its most significant bit; flat[97], its least significant bit;
\* the last sample of the large image, its least significant bit
WindowTamperSites == {<<1, 7>>, <<98, 0>>, <<ScanCap + 41, 0>>}

InitWindow ==
  /\ image \in {Image144At96, Image144At100, Image144At104, ImageBeyondCap}
  /\ origin = NoOrigin
  /\ watermarked = FALSE
  /\ call = NoCall
  /\ ret = NoRet
  /\ OthersInit

NextWindow ==
  \/ \E t \in WindowIdentifiers, s \in Strengths : Embed(t, s)
  \/ Adopt
  \/ Return
  \/ \E site \in WindowTamperSites : Tamper(site)
  \/ Extract

SpecWindow == InitWindow /\ [][NextWindow]_vars

(***************************************************************************)
(* Reference notions the claims are stated with.                           *)
(***************************************************************************)
\* The 8 bits of a byte value, most significant first.
Byte8(c) == [j \in 1..8 |-> (c \div (2 ^ (8 - j))) % 2]

\* One byte -> 8 bits, MSB first, concatenated in text order.
Encode8(text) == [i \in 1..(8 * Len(text)) |-> Byte8(text[((i - 1) \div 8) + 1])[((i - 1) % 8) + 1]]

\* The number of bits of identifier + delimiter, as the code serializes them.
RECURSIVE SerializedLen(_)
SerializedLen(text) ==
  IF text = <<>> THEN 0 ELSE Len(Format08b(Head(text))) + SerializedLen(Tail(text))

\* The scan window: the first min(sample count, 16000) samples.
WindowLen(img) == Min(Len(img), ScanCap)

\* The characters the complete 8-bit groups of the window's LSBs spell.
Chars8(img) ==
  [k \in 1..(WindowLen(img) \div 8) |->
     LET b == [j \in 1..8 |-> img[8 * (k - 1) + j] % 2]
     IN 128 * b[1] + 64 * b[2] + 32 * b[3] + 16 * b[4]
        + 8 * b[5] + 4 * b[6] + 2 * b[7] + b[8]]

\* The part of s before the first occurrence of DELIM in s.
BeforeFirstDelim(s) ==
  LET first == CHOOSE i \in 1..Len(s) :
                 /\ SubSeq(s, i, i + 3) = DELIM
                 /\ \A j \in 1..(i - 1) : SubSeq(s, j, j + 3) # DELIM
  IN SubSeq(s, 1, first - 1)

HasDelim(s) == \E i \in 1..(Len(s) - 3) : SubSeq(s, i, i + 3) = DELIM

\* The string the decode loop of extract accumulates when it runs to the end.
DecodedWindow(img) ==
  LET all_bytes == AllBytes(ExtractBits(img))
  IN [k \in 1..Len(all_bytes) |-> IntBase2(all_bytes[k])]

\* The 32 bits of "@@@@", and their presence in the LSBs of
\* flat[offset..offset+31] (offset from 0).
DelimBits == Encode8(DELIM)

DelimBitsAt(img, offset) ==
  /\ offset + 32 <= Len(img)
  /\ \A j \in 1..32 : img[offset + j] % 2 = DelimBits[j]

\* The image cut to the scan window and to its least-significant bits.
LsbWindow(img) == [i \in 1..WindowLen(img) |-> img[i] % 2]

\* "unknown", as the sentinel is written in lower case
UnknownLower == <<117, 110, 107, 110, 111, 119, 110>>

(***************************************************************************)
(* C1. Round trip: extract applied to the unmodified image returned by a   *)
(* successful embed(image, identifier, strength), strength >= 1, returns   *)
(* exactly the identifier, with match_ratio 1.0.                           *)
(***************************************************************************)
C1_RoundTrip ==
  (call.op = "extract" /\ origin # NoOrigin)
    => (ret.text = origin.text /\ ret.match_ratio = RatioFound)

(***************************************************************************)
(* C2. Capacity boundary: embed fails with the capacity error exactly when *)
(* the bits of identifier + delimiter times strength are strictly more     *)
(* than the height*width*3 samples, and succeeds when the two are equal.   *)
(***************************************************************************)
C2_CapacityBoundary ==
  call.op = "embed"
    => LET need == SerializedLen(call.text \o DELIM) * call.strength
       IN /\ (ret.status = "ValueError") <=> (need > Len(call.input))
          /\ (ret.status = "ok") <=> (need <= Len(call.input))

C2_Witness ==
  /\ call.op = "embed"
  /\ ret.status = "ok"
  /\ SerializedLen(call.text \o DELIM) * call.strength = Len(call.input)

(***************************************************************************)
(* C3. "user-42" in a 64x64x3 image (12288 samples): strength 5 succeeds   *)
(* with a bitstream of 440 bits, and strength 40 fails with the capacity   *)
(* error.                                                                  *)
(***************************************************************************)
C3_ExampleAsStated ==
  (call.op = "embed" /\ call.text = UserId42 /\ Len(call.input) = 12288)
    => /\ call.strength = 5
            => (ret.status = "ok" /\ Len(ret.binary_data) = 440)
       /\ call.strength = 40 => ret.status = "ValueError"

(***************************************************************************)
(* C3, amended. "user-42" in a 64x64x3 image: strength 5 succeeds with 440 *)
(* bits and strength 40 succeeds too, with 3520 bits; every strength below *)
(* 140 succeeds and the capacity error occurs from strength 140 on (12320  *)
(* bits for 12288 samples).                                                *)
(***************************************************************************)
C3_Example ==
  (call.op = "embed" /\ call.text = UserId42 /\ Len(call.input) = 12288)
    => /\ call.strength = 5
            => (ret.status = "ok" /\ Len(ret.binary_data) = 440)
       /\ call.strength = 40
            => (ret.status = "ok" /\ Len(ret.binary_data) = 3520)
       /\ call.strength < 140 => ret.status = "ok"
       /\ call.strength >= 140 => ret.status = "ValueError"

C3_Witness ==
  /\ call.op = "embed"
  /\ call.text = UserId42
  /\ Len(call.input) = 12288
  /\ call.strength = 40
  /\ ret.status = "ok"
  /\ Len(ret.binary_data) = 3520

(***************************************************************************)
(* C4. embed never mutates its input pixel buffer: after an embed call,    *)
(* successful or failed, every sample of the input image is as before, and *)
(* a failed call produces no image.                                        *)
(***************************************************************************)
C4_InputNeverMutated ==
  call.op = "embed"
    => /\ image = call.input
       /\ ret.status = "ValueError" => DOMAIN ret = {"status"}

C4_Witness ==
  /\ call.op = "embed"
  /\ ret.status = "ok"
  /\ ret.watermarked_image # call.input
  /\ image = call.input

(***************************************************************************)
(* C5. In the image a successful embed returns, sample i < len(bitstream)  *)
(* keeps its upper 7 bits and has the bitstream's bit i as its LSB, and    *)
(* every sample at i >= len(bitstream) is identical to the input sample.   *)
(***************************************************************************)
C5_OnlyLsbWritten ==
  (call.op = "embed" /\ ret.status = "ok")
    => /\ Len(ret.watermarked_image) = Len(call.input)
       /\ \A i \in 1..Len(call.input) :
            IF i <= Len(ret.binary_data)
            THEN /\ ret.watermarked_image[i] \div 2 = call.input[i] \div 2
                 /\ ret.watermarked_image[i] % 2 = ret.binary_data[i]
            ELSE ret.watermarked_image[i] = call.input[i]

C5_Witness ==
  /\ call.op = "embed"
  /\ ret.status = "ok"
  /\ Len(ret.binary_data) < Len(call.input)
  /\ \E i \in 1..Len(ret.binary_data) : ret.watermarked_image[i] # call.input[i]
  /\ \E i \in 1..Len(ret.binary_data) : call.input[i] \div 2 = 127

(***************************************************************************)
(* C6. The bitstream embed returns is the MSB-first 8-bit encoding of each *)
(* byte of identifier followed by "@@@@", repeated strength times; its     *)
(* length is exactly 8*(len(identifier)+4)*strength.                       *)
(***************************************************************************)
C6_BitstreamEncoding ==
  (call.op = "embed" /\ ret.status = "ok")
    => /\ Len(ret.binary_data) = 8 * (Len(call.text) + 4) * call.strength
       /\ ret.binary_data = Repeat(Encode8(call.text \o DELIM), call.strength)

(***************************************************************************)
(* C7. extract decodes the window's LSBs as MSB-first 8-bit characters     *)
(* and returns with match_ratio 1.0, as soon as the string of these        *)
(* characters contains "@@@@", the part before the first "@@@@".           *)
(***************************************************************************)
C7_Decodes8BitGroups ==
  call.op = "extract"
    => LET chars == Chars8(call.input)
       IN /\ (ret.match_ratio = RatioFound) <=> HasDelim(chars)
          /\ HasDelim(chars) => ret.text = BeforeFirstDelim(chars)

(***************************************************************************)
(* C8. When no delimiter is found in the scanned window, extract returns   *)
(* the sentinel text "unknown" with match_ratio 0.1; match_ratio is never  *)
(* a value other than 1.0 or 0.1.                                          *)
(***************************************************************************)
C8_SentinelAsStated ==
  call.op = "extract"
    => /\ ret.match_ratio \in {RatioFound, RatioNotFound}
       /\ ~HasDelim(DecodedWindow(call.input))
            => (ret.text = UnknownLower /\ ret.match_ratio = RatioNotFound)

(***************************************************************************)
(* C8, amended. When no delimiter is found in the scanned window, extract  *)
(* returns the sentinel text "Unknown", with a capital U, and match_ratio  *)
(* 0.1; match_ratio is never a value other than 1.0 or 0.1.                *)
(***************************************************************************)
C8_Sentinel ==
  call.op = "extract"
    => /\ ret.match_ratio \in {RatioFound, RatioNotFound}
       /\ ~HasDelim(DecodedWindow(call.input))
            => (ret.text = Unknown /\ ret.match_ratio = RatioNotFound)

C8_Witness ==
  /\ call.op = "extract"
  /\ Len(call.input) > ScanCap
  /\ ~HasDelim(DecodedWindow(call.input))
  /\ ret.text = Unknown
  /\ ret.match_ratio = RatioNotFound

(***************************************************************************)
(* C9. The result of extract is determined by the least-significant bits   *)
(* of the first min(sample count, 16000) samples alone: samples beyond the *)
(* window and bits other than the LSB have no influence, a delimiter that  *)
(* lies entirely beyond sample 16000 (the bytes of the window holding      *)
(* none) is not found, and a payload whose identifier + delimiter is       *)
(* longer than 2000 bytes is not recovered.                                *)
(***************************************************************************)
C9_WindowLsbOnly ==
  call.op = "extract"
    => /\ ret = extract_watermark_lsb(LsbWindow(call.input))
       /\ ( /\ \E off \in ScanCap..(Len(call.input) - 32) :
                  DelimBitsAt(call.input, off)
            /\ ~HasDelim(Chars8(call.input)) )
            => ret.match_ratio = RatioNotFound
       /\ (origin # NoOrigin /\ Len(origin.text) + 4 > ScanCap \div 8)
            => ret.text # origin.text

C9_Witness ==
  /\ call.op = "extract"
  /\ Len(call.input) > ScanCap
  /\ DelimBitsAt(call.input, ScanCap)
  /\ call.input # ImageBeyondCap
  /\ ret.match_ratio = RatioNotFound

(***************************************************************************)
(* C10. A delimiter placed at sample 100 of the image, inside the window,  *)
(* is always found by extract, which returns match_ratio 1.0.              *)
(***************************************************************************)
C10_FoundAtSample100 ==
  (call.op = "extract" /\ DelimBitsAt(call.input, 100))
    => ret.match_ratio = RatioFound

(***************************************************************************)
(* C10, amended. A delimiter placed at a sample index that is a multiple   *)
(* of 8 (sample 96, say) and ending inside the window is always found by   *)
(* extract, which returns match_ratio 1.0.                                 *)
(***************************************************************************)
C10_FoundWhenAligned ==
  call.op = "extract"
    => \A k \in 0..((WindowLen(call.input) \div 8) - 4) :
         DelimBitsAt(call.input, 8 * k) => ret.match_ratio = RatioFound

C10_Witness ==
  /\ call.op = "extract"
  /\ DelimBitsAt(call.input, 96)
  /\ ~DelimBitsAt(call.input, 0)
  /\ ret.match_ratio = RatioFound

(***************************************************************************)
(* verify_image of backend/app/routes/verify.py: the verdict computed from *)
(* the extraction result and the record the store returns.  A confidence   *)
(* formula is evaluated in hundredths of a point, match_ratio being in     *)
(* hundredths, and int() cuts it to whole points.                          *)
(***************************************************************************)
\* None, as a value of owner_id
NoneValue == <<-1>>

\* record: None, or a stored record with its owner
NoRecord == [exists |-> FALSE, owner_id |-> NoneValue]
StoredRecord(owner_id) == [exists |-> TRUE, owner_id |-> owner_id]

Max(a, b) == IF a > b THEN a ELSE b

\* int(x) for x given in hundredths: truncation toward zero.
IntOf(h) == IF h >= 0 THEN h \div RatioFound ELSE -((-h) \div RatioFound)

\* Mutant: `and` for `or`, a stored record alone does not count.
watermark_found_and(record, extracted_text, match_ratio) ==
  record.exists /\ (match_ratio > 50 /\ extracted_text # Unknown)

\* record is not None or (match_ratio > 0.5 and extracted_text != "Unknown")
watermark_found(record, extracted_text, match_ratio) ==
  record.exists \/ (match_ratio > 50 /\ extracted_text # Unknown)

\* record.owner_id if record else (extracted_text if extracted_text != "Unknown" else None)
owner_id(record, extracted_text) ==
  IF record.exists THEN record.owner_id
  ELSE IF extracted_text # Unknown THEN extracted_text ELSE NoneValue

\* Mutant: the last branch of a found watermark starts from 30, not 40.
confidence_low(found, match_ratio) ==
  IF found
  THEN IF match_ratio > 90 THEN IntOf(9000 + (match_ratio - 90) * 100)
       ELSE IF match_ratio > 70 THEN IntOf(6000 + (match_ratio - 70) * 100)
       ELSE IntOf(3000 + match_ratio * 100)
  ELSE IF match_ratio > 40 THEN IntOf(2000 + match_ratio * 80)
       ELSE IntOf(match_ratio * 40)

\* confidence as the if/elif/else of lines 57-73 assigns it
confidence(found, match_ratio) ==
  IF found
  THEN IF match_ratio > 90 THEN IntOf(9000 + (match_ratio - 90) * 100)
       ELSE IF match_ratio > 70 THEN IntOf(6000 + (match_ratio - 70) * 100)
       ELSE IntOf(4000 + match_ratio * 100)
  ELSE IF match_ratio > 40 THEN IntOf(2000 + match_ratio * 80)
       ELSE IntOf(match_ratio * 40)

\* Mutant: the thresholds not strict (>= for >).
tamper_status_ge(found, match_ratio) ==
  IF found
  THEN IF match_ratio >= 90 THEN "intact" ELSE "modified"
  ELSE IF match_ratio >= 40 THEN "modified" ELSE "no watermark"

\* tamper_status as the same branches assign it
tamper_status(found, match_ratio) ==
  IF found
  THEN IF match_ratio > 90 THEN "intact" ELSE "modified"
  ELSE IF match_ratio > 40 THEN "modified" ELSE "no watermark"

\* Mutant: only the lower limit applied.
ClampFloor(c) == Max(0, c)

\* max(0, min(100, confidence))
Clamp(c) == Max(0, Min(100, c))

\* Lines 51-85: the response, and `branch`, the value of confidence before
\* line 76.
VerifyResponse(record, extracted_text, match_ratio) ==
  LET found == watermark_found(record, extracted_text, match_ratio)
      branch == confidence(found, match_ratio)
  IN [branch |-> branch,
      response |-> [status |-> "ok",
                    watermark_found |-> found,
                    owner_id |-> owner_id(record, extracted_text),
                    confidence |-> Clamp(branch),
                    tamper_status |-> tamper_status(found, match_ratio),
                    extracted_text |-> extracted_text,
                    match_ratio |-> match_ratio]]

\* verify_image on a decoded image, the store answering `record`.
verify_image(img, record) ==
  LET e == extract_watermark_lsb(img)
  IN VerifyResponse(record, e.text, e.match_ratio)

\* POST /verify for the image the caller holds.
Verify(record) ==
  /\ Idle
  /\ \E e \in {extract_watermark_lsb(image)} :
       \E v \in {VerifyResponse(record, e.text, e.match_ratio)} :
         /\ call' = [op |-> "verify", input |-> image, record |-> record,
                     extracted_text |-> e.text, match_ratio |-> e.match_ratio,
                     branch |-> v.branch]
         /\ ret' = v.response
  /\ UNCHANGED <<image, origin, watermarked>>
  /\ UNCHANGED others

\* Lines 51-85 on an extraction result and a record given directly.
Classify(record, extracted_text, match_ratio) ==
  /\ Idle
  /\ \E v \in {VerifyResponse(record, extracted_text, match_ratio)} :
       /\ call' = [op |-> "classify", input |-> image, record |-> record,
                   extracted_text |-> extracted_text,
                   match_ratio |-> match_ratio, branch |-> v.branch]
       /\ ret' = v.response
  /\ UNCHANGED <<image, origin, watermarked>>
  /\ UNCHANGED others

\* The verdict is delivered.
Respond ==
  /\ call.op \in {"verify", "classify", "protect"}
  /\ call' = NoCall
  /\ ret' = NoRet
  /\ UNCHANGED <<image, origin, watermarked>>
  /\ UNCHANGED others

\* 40 pixels carrying the identifiers "unknown" and "Unknown"
Image120Lower == embed_watermark_lsb(Image120, UnknownLower, 1).watermarked_image
Image120Upper == embed_watermark_lsb(Image120, Unknown, 1).watermarked_image

VerifyImages == {Image39, Image120, Image120W, Image120Lower, Image120Upper}
Records == {NoRecord, StoredRecord(<<65>>)}
ExtractedTexts == {Unknown, UnknownLower, <<65>>}
\* match_ratio from 0.00 to 1.00
MatchRatios == 0..RatioFound

InitVerify ==
  /\ image \in VerifyImages
  /\ origin = NoOrigin
  /\ watermarked = FALSE
  /\ call = NoCall
  /\ ret = NoRet
  /\ OthersInit

NextVerify ==
  \/ \E record \in Records : Verify(record)
  \/ \E record \in Records, t \in ExtractedTexts, r \in MatchRatios :
       Classify(record, t, r)
  \/ Respond

SpecVerify == InitVerify /\ [][NextVerify]_vars

\* A verdict has been computed.
Verdict == call.op \in {"verify", "classify"}

\* The formula of the verdict's branch, in hundredths of a point.
BranchFormula(found, r) ==
  IF found /\ r > 90 THEN 9000 + (r - 90) * 100
  ELSE IF found /\ r > 70 THEN 6000 + (r - 70) * 100
  ELSE IF found THEN 4000 + r * 100
  ELSE IF r > 40 THEN 2000 + r * 80
  ELSE r * 40

(***************************************************************************)
(* C11. For every found and match_ratio the confidence of the verdict is   *)
(* an integer from 0 to 100, and it is the value of the selected branch    *)
(* clamped to that range: a branch value above 100 is returned as 100, one *)
(* below 0 as 0, any other unchanged.                                      *)
(***************************************************************************)
C11_ConfidenceRange ==
  Verdict
    => /\ ret.confidence \in 0..100
       /\ call.branch > 100 => ret.confidence = 100
       /\ call.branch < 0 => ret.confidence = 0
       /\ call.branch \in 0..100 => ret.confidence = call.branch

C11_Witness ==
  /\ Verdict
  /\ ret.watermark_found
  /\ call.match_ratio = 70
  /\ call.branch = 110
  /\ ret.confidence = 100

(***************************************************************************)
(* C12. The tamper status is intact exactly when found and match_ratio >   *)
(* 0.9, no_watermark exactly when not found and match_ratio <= 0.4, and    *)
(* modified in every other case; found with match_ratio 0.9 is modified,   *)
(* found with 0.91 is intact.                                              *)
(***************************************************************************)
C12_TamperStatus ==
  Verdict
    => LET found == ret.watermark_found
           r == call.match_ratio
           intact == found /\ r > 90
           none == ~found /\ r <= 40
       IN /\ ret.tamper_status \in {"intact", "modified", "no watermark"}
          /\ (ret.tamper_status = "intact") <=> intact
          /\ (ret.tamper_status = "no watermark") <=> none
          /\ (ret.tamper_status = "modified") <=> (~intact /\ ~none)
          /\ (found /\ r = 90) => ret.tamper_status = "modified"
          /\ (found /\ r = 91) => ret.tamper_status = "intact"

C12_Witness ==
  /\ Verdict
  /\ ret.watermark_found
  /\ call.match_ratio = 90
  /\ ret.tamper_status = "modified"

C14_FoundAsStated ==
  Verdict
    => (ret.watermark_found
          <=> (call.record.exists
                 \/ (call.match_ratio > 50 /\ call.extracted_text # UnknownLower)))

(***************************************************************************)
(* C14, amended. In the verdict, found is true if and only if a matching   *)
(* stored record exists or (match_ratio > 0.5 and the extracted text is    *)
(* not the sentinel "Unknown", with a capital U).                          *)
(***************************************************************************)
C14_Found ==
  Verdict
    => (ret.watermark_found
          <=> (call.record.exists
                 \/ (call.match_ratio > 50 /\ call.extracted_text # Unknown)))

C14_Witness ==
  /\ call.op = "verify"
  /\ ~call.record.exists
  /\ call.extracted_text = UnknownLower
  /\ call.match_ratio = RatioFound
  /\ ret.watermark_found

(***************************************************************************)
(* process_protection of backend/app/routes/protection.py and              *)
(* AdversarialProtector.protect_image of backend/app/services/             *)
(* adversarial.py.  strength is in hundredths, epsilon in millionths, a    *)
(* confidence of the classifier in steps of 1/ConfSteps, and the           *)
(* robustness score a fraction num/den.  What the ResNet18 model computes  *)
(* (the two confidences, the sign of the upsampled gradient at each        *)
(* sample) is an input of the step.                                        *)
(***************************************************************************)
ConfSteps == 4

\* epsilon = strength; if strength > 1.0: epsilon = (strength / 100.0) * 0.05
EpsilonOf(strength) ==
  IF strength > 100 THEN strength * 5 ELSE strength * 10000

\* self.model.zero_grad()
zero_grad(cls) == [cls EXCEPT !.grad = NoGrad]

\* loss.backward(): the gradient of the loss of this input is accumulated
\* into the .grad of every parameter of the model, which requires_grad.
backward(cls, img) ==
  [cls EXCEPT !.grad = [loss_of |-> Append(cls.grad.loss_of, img)]]

\* _get_gradient as it leaves self.model
get_gradient(cls, img) == backward(zero_grad(cls), img)

\* Mutant: the drop not limited below, (orig_conf - adv_conf) / orig_conf * 100.
robustness_score_signed(orig_conf, adv_conf) ==
  [num |-> (orig_conf - adv_conf) * 100, den |-> orig_conf]

\* max(0, (orig_conf - adv_conf) / orig_conf) * 100
robustness_score(orig_conf, adv_conf) ==
  [num |-> Max(0, orig_conf - adv_conf) * 100, den |-> orig_conf]

\* Mutant: the sum not clamped.
FinalSampleUnclamped(v, epsilon, sign) == v * 1000000 + 255 * epsilon * sign

\* One sample of final_img_tensor after torch.clamp: the sample v/255 plus
\* strength * sign, clamped to [0, 1].  The value is in units of
\* 1/255000000 (1.0 is 255 * 1000000).
FinalSample(v, epsilon, sign) ==
  LET x == v * 1000000 + 255 * epsilon * sign
  IN Max(0, Min(255 * 1000000, x))

\* The sample as ToPILImage stores it: times 255, cut to a byte.
ProtectedSample(v, epsilon, sign) ==
  FinalSample(v, epsilon, sign) \div 1000000

\* POST /protect/process for the image the caller holds.
Protect(strength, grad_sign, orig_conf, adv_conf) ==
  /\ Idle
  /\ \E epsilon \in {EpsilonOf(strength)} :
       /\ call' = [op |-> "protect", input |-> image, strength |-> strength,
                   epsilon |-> epsilon, grad_sign |-> grad_sign,
                   orig_conf |-> orig_conf, adv_conf |-> adv_conf,
                   final |-> [i \in 1..Len(image) |->
                                FinalSample(image[i], epsilon, grad_sign[i])]]
       /\ ret' = [status |-> "ok",
                  protected |-> [i \in 1..Len(image) |->
                                   ProtectedSample(image[i], epsilon, grad_sign[i])],
                  robustness_score |-> robustness_score(orig_conf, adv_conf)]
  /\ classifier' = get_gradient(classifier, image)
  /\ UNCHANGED services
  /\ UNCHANGED <<image, origin, watermarked, flipped, workers, frames>>

\* one pixel with the samples 0, 128 and 255
ProtectImages == {<<0, 128, 255>>}
\* 0.00, 0.01, 0.05, 1.00, 1.01, 50, 100, 101 and 200
ProtectStrengths == {0, 1, 5, 100, 101, 5000, 10000, 10100, 20000}
GradSigns == [1..3 -> {-1, 0, 1}]
\* the top-class probability is positive; the probability of that class
\* after the perturbation is any
OrigConfs == 1..ConfSteps
AdvConfs == 0..ConfSteps

InitProtect ==
  /\ image \in ProtectImages
  /\ origin = NoOrigin
  /\ watermarked = FALSE
  /\ call = NoCall
  /\ ret = NoRet
  /\ OthersInit

NextProtect ==
  \/ \E strength \in ProtectStrengths, g \in GradSigns,
        o \in OrigConfs, a \in AdvConfs : Protect(strength, g, o, a)
  \/ Respond

SpecProtect == InitProtect /\ [][NextProtect]_vars

(***************************************************************************)
(* C15. The epsilon handed to the perturber is the strength itself when    *)
(* strength <= 1.0 and strength/100*0.05 otherwise; for every strength >   *)
(* 1.0 the epsilon lies in [0, 0.05].                                      *)
(***************************************************************************)
C15_EpsilonMapping ==
  call.op = "protect"
    => /\ call.strength <= 100 => call.epsilon = call.strength * 10000
       /\ call.strength > 100
            => /\ call.epsilon * 100 = call.strength * 500
               /\ call.epsilon >= 0
               /\ call.epsilon <= 50000

(***************************************************************************)
(* C16. The robustness score protect returns is                            *)
(* max(0, (orig_conf - adv_conf)/orig_conf)*100; it lies in [0, 100] and   *)
(* is 0 whenever adv_conf is not below orig_conf.                          *)
(***************************************************************************)
C16_RobustnessScore ==
  call.op = "protect"
    => LET score == ret.robustness_score
           o == call.orig_conf
           a == call.adv_conf
       IN /\ score.den > 0
          /\ score.num >= 0
          /\ score.num <= 100 * score.den
          /\ a >= o => score.num = 0
          /\ a < o => score.num * o = (o - a) * 100 * score.den

C16_Witness ==
  /\ call.op = "protect"
  /\ call.adv_conf > call.orig_conf
  /\ ret.robustness_score.num = 0

(***************************************************************************)
(* C17. The classifier shared by all protect calls is never mutated after  *)
(* initialization: no protect call writes to any state of the shared       *)
(* model, weights, accumulated parameter gradients or other buffers.       *)
(***************************************************************************)
C17_ClassifierNeverMutated == classifier = LoadedClassifier

(***************************************************************************)
(* Concurrent calls of embed_watermark_lsb and extract_watermark_lsb, each *)
(* on the image decoded for its own request.  A call runs in steps (the    *)
(* statements before its loop, the loop, the return) that interleave with  *)
(* the steps of the other calls; its local variables flat and binary_data  *)
(* live in its frame.  The module has no variable outside the functions.   *)
(***************************************************************************)
\* Mutant: every call works in the frame of the first one.
FrameShared(t) == 1

\* The frame a call's statements read and write: its own.
FrameOf(t) == t

EmbedRequest(img, watermark_text, strength) ==
  [op |-> "embed", img |-> img, text |-> watermark_text, strength |-> strength]
ExtractRequest(img) ==
  [op |-> "extract", img |-> img, text |-> <<>>, strength |-> 0]

WorkerRequests ==
  {EmbedRequest(Image120, <<65>>, 1), EmbedRequest(Image120, <<64>>, 2),
   EmbedRequest(Image39, <<65>>, 1),
   ExtractRequest(Image120W), ExtractRequest(Image39)}

Start(t, req) ==
  /\ workers[t].pc = "idle"
  /\ workers' = [workers EXCEPT ![t] = [pc |-> "begin", req |-> req]]
  /\ UNCHANGED services
  /\ UNCHANGED <<image, origin, watermarked, call, ret, flipped, classifier,
                 frames>>

\* embed, lines 18-33: binary_data, the copy of the pixels, the capacity check
EmbedBegin(t) ==
  /\ workers[t].pc = "begin"
  /\ workers[t].req.op = "embed"
  /\ LET req == workers[t].req
         binary_data == BinaryData(req.text, req.strength)
     IN IF CapacityExceeded(binary_data, req.img)
        THEN /\ workers' = [workers EXCEPT ![t] =
                              [pc |-> "done", req |-> req,
                               result |-> [status |-> "ValueError"]]]
             /\ UNCHANGED frames
        ELSE /\ workers' = [workers EXCEPT ![t].pc = "write"]
             /\ frames' = [frames EXCEPT ![FrameOf(t)] =
                             [flat |-> req.img, binary_data |-> binary_data]]
  /\ UNCHANGED services
  /\ UNCHANGED <<image, origin, watermarked, call, ret, flipped, classifier>>

\* embed, lines 35-37: the loop over binary_data
EmbedWrite(t) ==
  /\ workers[t].pc = "write"
  /\ LET f == frames[FrameOf(t)]
     IN frames' = [frames EXCEPT ![FrameOf(t)].flat =
                     [i \in 1..Len(f.flat) |->
                        IF i <= Len(f.binary_data)
                        THEN WriteBit(f.flat[i], f.binary_data[i])
                        ELSE f.flat[i]]]
  /\ workers' = [workers EXCEPT ![t].pc = "finish"]
  /\ UNCHANGED services
  /\ UNCHANGED <<image, origin, watermarked, call, ret, flipped, classifier>>

\* embed, lines 39-43: the image built from flat, and the return
EmbedFinish(t) ==
  /\ workers[t].pc = "finish"
  /\ LET f == frames[FrameOf(t)]
     IN workers' = [workers EXCEPT ![t] =
                      [pc |-> "done", req |-> workers[t].req,
                       result |->
                         [status |-> "ok",
                          watermarked_image |->
                            [i \in 1..Len(f.flat) |-> AndFF(f.flat[i])],
                          binary_data |-> f.binary_data]]]
  /\ frames' = [frames EXCEPT ![FrameOf(t)] = NoFrame]
  /\ UNCHANGED services
  /\ UNCHANGED <<image, origin, watermarked, call, ret, flipped, classifier>>

\* extract, lines 47-54: flat and the bits of the window
ExtractBegin(t) ==
  /\ workers[t].pc = "begin"
  /\ workers[t].req.op = "extract"
  /\ workers' = [workers EXCEPT ![t].pc = "decode"]
  /\ frames' = [frames EXCEPT ![FrameOf(t)] =
                  [flat |-> workers[t].req.img,
                   binary_data |-> ExtractBits(workers[t].req.img)]]
  /\ UNCHANGED services
  /\ UNCHANGED <<image, origin, watermarked, call, ret, flipped, classifier>>

\* extract, lines 56-68: the decode loop and the return
ExtractDecode(t) ==
  /\ workers[t].pc = "decode"
  /\ LET all_bytes == AllBytes(frames[FrameOf(t)].binary_data)
         st == DecodeLoop(all_bytes, 1, Len(all_bytes),
                          [returned |-> FALSE, decoded |-> <<>>,
                           text |-> Unknown, match_ratio |-> RatioNotFound])
     IN workers' = [workers EXCEPT ![t] =
                      [pc |-> "done", req |-> workers[t].req,
                       result |-> [status |-> "ok", text |-> st.text,
                                   match_ratio |-> st.match_ratio]]]
  /\ frames' = [frames EXCEPT ![FrameOf(t)] = NoFrame]
  /\ UNCHANGED services
  /\ UNCHANGED <<image, origin, watermarked, call, ret, flipped, classifier>>

\* The caller has the result; the worker takes the next request.
Finish(t) ==
  /\ workers[t].pc = "done"
  /\ workers' = [workers EXCEPT ![t] = IdleWorker]
  /\ UNCHANGED services
  /\ UNCHANGED <<image, origin, watermarked, call, ret, flipped, classifier,
                 frames>>

InitConcurrent ==
  /\ image = Image120
  /\ origin = NoOrigin
  /\ watermarked = FALSE
  /\ call = NoCall
  /\ ret = NoRet
  /\ OthersInit

NextConcurrent ==
  \E t \in Workers :
    \/ \E req \in WorkerRequests : Start(t, req)
    \/ EmbedBegin(t)
    \/ EmbedWrite(t)
    \/ EmbedFinish(t)
    \/ ExtractBegin(t)
    \/ ExtractDecode(t)
    \/ Finish(t)

SpecConcurrent == InitConcurrent /\ [][NextConcurrent]_vars

\* What the call of a request returns or raises when nothing else runs.
Alone(req) ==
  IF req.op = "embed"
  THEN LET r == embed_watermark_lsb(req.img, req.text, req.strength)
       IN [f \in DOMAIN r \ {"input"} |-> r[f]]
  ELSE extract_watermark_lsb(req.img)

(***************************************************************************)
(* C18. embed and extract keep no state across calls: under any            *)
(* interleaving of concurrent calls each call returns what it returns when *)
(* run alone, and calls with the same inputs return the same output.       *)
(***************************************************************************)
C18_CallsIndependent ==
  /\ \A t \in Workers :
       workers[t].pc = "done" => workers[t].result = Alone(workers[t].req)
  /\ \A t, u \in Workers :
       (workers[t].pc = "done" /\ workers[u].pc = "done"
          /\ workers[t].req = workers[u].req)
         => workers[t].result = workers[u].result

C18_Witness ==
  /\ workers[1].pc = "done"
  /\ workers[1].req.op = "embed"
  /\ workers[1].result.status = "ok"
  /\ workers[2].pc = "decode"
  /\ frames[2].binary_data # <<>>

(***************************************************************************)
(* C19. extract is total: for every RGB pixel buffer, sample counts that   *)
(* are not a multiple of 8 included, it returns (text, 1.0) or (sentinel,  *)
(* 0.1) and surfaces no error; only a group that fails to decode is        *)
(* skipped, so the result is that of the characters of all the groups of   *)
(* the window, of which none fails.                                        *)
(***************************************************************************)
C19_ExtractTotal ==
  call.op = "extract"
    => /\ ret.status = "ok"
       /\ \/ ret.match_ratio = RatioFound /\ ret.text \in Seq(0..255)
          \/ ret.match_ratio = RatioNotFound /\ ret.text = Unknown
       /\ LET decoded == DecodedWindow(call.input)
          IN /\ Len(decoded) = (WindowLen(call.input) + 7) \div 8
             /\ HasDelim(decoded) <=> ret.match_ratio = RatioFound
             /\ HasDelim(decoded) => ret.text = BeforeFirstDelim(decoded)

C19_Witness ==
  /\ call.op = "extract"
  /\ Len(call.input) % 8 = 7
  /\ ret.status = "ok"
  /\ ret.match_ratio = RatioFound
  /\ ret.text = <<65>>

(***************************************************************************)
(* The redundancy of the payload: one least-significant bit inside the     *)
(* first copy of the payload is flipped in the image an embed returned.    *)
(***************************************************************************)
FlipLsb(i) ==
  /\ Idle
  /\ origin # NoOrigin
  /\ i \in 1..Len(BinaryData(origin.text, 1))
  /\ image' = [image EXCEPT ![i] = ToggleBit(@, 0)]
  /\ flipped' = [text |-> origin.text, strength |-> origin.strength, site |-> i]
  /\ origin' = NoOrigin
  /\ UNCHANGED services
  /\ UNCHANGED <<watermarked, call, ret, classifier, workers, frames>>

\* the samples a first copy can cover: at most 9 bits for each character
FlipSites == 1..(9 * (MaxIdLen + 4))

InitRedundancy ==
  /\ image = Image120
  /\ origin = NoOrigin
  /\ watermarked = FALSE
  /\ call = NoCall
  /\ ret = NoRet
  /\ OthersInit

NextRedundancy ==
  \/ \E t \in Identifiers, s \in Strengths : Embed(t, s)
  \/ Adopt
  \/ Return
  \/ \E i \in FlipSites : FlipLsb(i)
  \/ Extract

SpecRedundancy == InitRedundancy /\ [][NextRedundancy]_vars

(***************************************************************************)
(* C20. Extraction does not exploit the redundancy: after an embed with    *)
(* strength >= 2, flipping any single least-significant bit inside the     *)
(* first copy of the payload makes extract return something other than the *)
(* original identifier.                                                    *)
(***************************************************************************)
C20_NoRepair ==
  (call.op = "extract" /\ flipped # NoFlip /\ flipped.strength >= 2)
    => ret.text # flipped.text

C20_Witness ==
  /\ call.op = "extract"
  /\ flipped.text = <<65>>
  /\ flipped.strength >= 2
  /\ flipped.site > 8
  /\ ret.match_ratio = RatioFound
  /\ Len(ret.text) > 5

(***************************************************************************)
(* C21. The image protect returns has the size of the original, and every  *)
(* output sample, in the [0,1] range before the 8-bit conversion, equals   *)
(* clamp(original + epsilon*s, 0, 1), s in {-1, 0, +1} being the sign of   *)
(* the upsampled gradient: no sample moves by more than epsilon and none   *)
(* leaves [0,1].  Values are in units of 1/255000000.                      *)
(***************************************************************************)
C21_OutputSamples ==
  call.op = "protect"
    => /\ Len(ret.protected) = Len(call.input)
       /\ Len(call.final) = Len(call.input)
       /\ \A i \in 1..Len(call.input) :
            LET one == 255 * 1000000
                original == call.input[i] * 1000000
                step == 255 * call.epsilon
                moved == original + step * call.grad_sign[i]
                final == call.final[i]
            IN /\ call.grad_sign[i] \in {-1, 0, 1}
               /\ moved < 0 => final = 0
               /\ moved > one => final = one
               /\ (0 <= moved /\ moved <= one) => final = moved
               /\ final - original <= step
               /\ original - final <= step
               /\ 0 <= final /\ final <= one
               /\ ret.protected[i] * 1000000 <= final
               /\ final < (ret.protected[i] + 1) * 1000000

C21_Witness ==
  /\ call.op = "protect"
  /\ call.epsilon = 10000
  /\ call.input[3] = 255 /\ call.grad_sign[3] = 1
  /\ call.final[3] = 255 * 1000000
  /\ call.input[2] = 128 /\ call.grad_sign[2] = -1
  /\ call.final[2] = 128 * 1000000 - 255 * 10000
  /\ ret.protected[2] = 125

(***************************************************************************)
(* C22. extract returns match_ratio 0.1 if and only if the text it returns *)
(* is the not-found sentinel, so verify never computes watermark_found =   *)
(* false, no stored record existing, for an image whose delimiter was      *)
(* decoded (match_ratio 1.0).                                              *)
(***************************************************************************)
C22_SentinelOnlyWhenNotFound ==
  call.op = "verify"
    => /\ (call.match_ratio = RatioNotFound) <=> (call.extracted_text = Unknown)
       /\ (call.match_ratio = RatioFound /\ ~call.record.exists)
            => ret.watermark_found

MaxFiles == 3

MaxFileCount == 50
MinBulkStrength == 1
MaxBulkStrength == 10

OperationIds == {"op-1"}
EmptyUpload == <<>>
BulkFiles == {EmptyUpload, Image39}
BulkOwner == <<65>>
BulkStrengths == {1, 5, 11}
FileLists == UNION {[1..n -> BulkFiles] : n \in 1..MaxFiles}

\* len(files) > 50, or not (1 <= strength <= 10): HTTP 400
start_bulk_rejected(files, strength) ==
  \/ Len(files) > MaxFileCount
  \/ ~(MinBulkStrength <= strength /\ strength <= MaxBulkStrength)

\* bulk_operations[operation_id] = {...}
NewOperation(files) ==
  [status |-> "pending", total_files |-> Len(files),
   processed_files |-> 0, failed_files |-> 0, results |-> <<>>]

\* The coroutine asyncio.create_task schedules, before its first step.
NewTask(files, strength) ==
  [pc |-> "scheduled", i |-> 0, files |-> files, owner_id |-> BulkOwner,
   strength |-> strength, closed |-> FALSE, statuses |-> <<"pending">>]

\* operation["failed_files"] += 1, with no entry in the results
CountEmpty(operation) ==
  [operation EXCEPT !.failed_files = @ + 1]

\* the except branch: failed_files += 1 and a "failed" result
CountFailed(operation) ==
  [operation EXCEPT !.failed_files = @ + 1,
                    !.results = Append(@, "failed")]

\* the end of the try block: a "success" result and processed_files += 1
CountSuccess(operation) ==
  [operation EXCEPT !.processed_files = @ + 1,
                    !.results = Append(@, "success")]

\* operation["status"] = status, and the trace of the statuses assigned
SetStatus(operation, status) == [operation EXCEPT !.status = status]
Traced(task, status) == [task EXCEPT !.statuses = Append(@, status)]

\* The body of the try block once raw_bytes is there and not empty:
\* embed_watermark_lsb raises ValueError or returns, and save_record of
\* the watermark store returns or raises.
ProcessFile(operation, task, saved) ==
  LET r == embed_watermark_lsb(task.files[task.i], task.owner_id, task.strength)
  IN IF r.status = "ok" /\ saved
     THEN CountSuccess(operation)
     ELSE CountFailed(operation)

\* The loop going on to its next file, or ending: status = "completed".
NextFile(o, operation, task) ==
  IF task.i < Len(task.files)
  THEN /\ bulk_operations' = [bulk_operations EXCEPT ![o] = operation]
       /\ bulk_task' = [bulk_task EXCEPT ![o] =
                          [task EXCEPT !.pc = "read", !.i = @ + 1]]
  ELSE /\ bulk_operations' =
            [bulk_operations EXCEPT ![o] = SetStatus(operation, "completed")]
       /\ bulk_task' = [bulk_task EXCEPT ![o] =
                          Traced([task EXCEPT !.pc = "finished"], "completed")]

BulkFrame ==
  UNCHANGED <<image, origin, watermarked, call, ret,
              flipped, classifier, workers, frames, users, sessions, issued, now>>

\* POST /bulk/watermark
StartBulk(o, files, strength) ==
  /\ o \notin DOMAIN bulk_operations
  /\ ~start_bulk_rejected(files, strength)
  /\ bulk_operations' =
       [x \in DOMAIN bulk_operations \cup {o} |->
          IF x = o THEN NewOperation(files) ELSE bulk_operations[x]]
  /\ bulk_task' =
       [x \in DOMAIN bulk_task \cup {o} |->
          IF x = o THEN NewTask(files, strength) ELSE bulk_task[x]]
  /\ BulkFrame

\* The uploads of the request closed by the server, the response being out.
CloseFiles(o) ==
  /\ o \in DOMAIN bulk_task
  /\ ~bulk_task[o].closed
  /\ bulk_task[o].pc \in {"scheduled", "read", "seek"}
  /\ bulk_task' = [bulk_task EXCEPT ![o].closed = TRUE]
  /\ UNCHANGED bulk_operations
  /\ BulkFrame

\* process_bulk_watermark up to its first await file.read()
TaskStart(o) ==
  /\ o \in DOMAIN bulk_task
  /\ bulk_task[o].pc = "scheduled"
  /\ bulk_operations' =
       [bulk_operations EXCEPT ![o] = SetStatus(@, "processing")]
  /\ bulk_task' = [bulk_task EXCEPT ![o] =
                     Traced([@ EXCEPT !.pc = "read", !.i = 1], "processing")]
  /\ BulkFrame

\* From the return of await file.read() to the next await.
ReadFile(o, saved) ==
  /\ o \in DOMAIN bulk_task
  /\ bulk_task[o].pc = "read"
  /\ LET task == bulk_task[o]
         operation == bulk_operations[o]
     IN IF task.closed
        THEN \* read raises: the except branch, then await file.seek(0)
             /\ bulk_operations' =
                  [bulk_operations EXCEPT ![o] = CountFailed(operation)]
             /\ bulk_task' = [bulk_task EXCEPT ![o].pc = "seek"]
        ELSE IF task.files[task.i] = EmptyUpload
        THEN \* not raw_bytes: continue, leaving out the seek
             NextFile(o, CountEmpty(operation), task)
        ELSE /\ bulk_operations' =
                  [bulk_operations EXCEPT ![o] =
                     ProcessFile(operation, task, saved)]
             /\ bulk_task' = [bulk_task EXCEPT ![o].pc = "seek"]
  /\ BulkFrame

\* From the return of await file.seek(0) to the next await: seek is
\* outside the try block, so its exception ends the task where it is.
SeekFile(o) ==
  /\ o \in DOMAIN bulk_task
  /\ bulk_task[o].pc = "seek"
  /\ IF bulk_task[o].closed
     THEN /\ bulk_task' = [bulk_task EXCEPT ![o].pc = "died"]
          /\ UNCHANGED bulk_operations
     ELSE NextFile(o, bulk_operations[o], bulk_task[o])
  /\ BulkFrame

TaskStep(o) ==
  \/ TaskStart(o)
  \/ \E saved \in BOOLEAN : ReadFile(o, saved)
  \/ SeekFile(o)

InitBulk ==
  /\ image = Image39
  /\ origin = NoOrigin
  /\ watermarked = FALSE
  /\ call = NoCall
  /\ ret = NoRet
  /\ OthersInit

NextBulk ==
  \/ \E o \in OperationIds, files \in FileLists, strength \in BulkStrengths :
       StartBulk(o, files, strength)
  \/ \E o \in OperationIds : CloseFiles(o)
  \/ \E o \in OperationIds : TaskStart(o)
  \/ \E o \in OperationIds, saved \in BOOLEAN : ReadFile(o, saved)
  \/ \E o \in OperationIds : SeekFile(o)

\* The event loop runs a task that is ready: a scheduled task takes its
\* next step.
SpecBulk ==
  InitBulk /\ [][NextBulk]_vars /\ \A o \in OperationIds : WF_vars(TaskStep(o))

IsPrefix(s, t) == Len(s) <= Len(t) /\ \A k \in 1..Len(s) : s[k] = t[k]

TaskCanStep(o) == bulk_task[o].pc \in {"scheduled", "read", "seek"}

(***************************************************************************)
(* C24. Every bulk operation that was started takes its statuses in the    *)
(* order pending, processing, completed; has processed_files +             *)
(* failed_files <= total_files at every moment, with equality once         *)
(* completed; and reaches completed whatever happens to its files: as long *)
(* as it is not completed its task has a next step to take, which the      *)
(* event loop runs.                                                        *)
(***************************************************************************)
C24_BulkLifecycle ==
  \A o \in DOMAIN bulk_operations :
    LET operation == bulk_operations[o]
    IN /\ IsPrefix(bulk_task[o].statuses, <<"pending", "processing", "completed">>)
       /\ operation.status = bulk_task[o].statuses[Len(bulk_task[o].statuses)]
       /\ operation.processed_files + operation.failed_files
            <= operation.total_files
       /\ operation.status = "completed"
            => operation.processed_files + operation.failed_files
                 = operation.total_files
       /\ operation.status = "completed" \/ TaskCanStep(o)

(***************************************************************************)
(* Users and sessions: register and login store a row in user_sessions     *)
(* through create_session, and get_user_by_token looks a token up.  Time   *)
(* is counted in ticks, TicksPerDay to the day; a timestamp is stored and  *)
(* compared as the text isoformat() gives, which leaves the fraction out   *)
(* when it is zero, and SQLite compares the texts byte by byte.            *)
(***************************************************************************)
MaxDays == 7
TicksPerDay == 2

SessionLifetime == 7

MaxTime == MaxDays * TicksPerDay + TicksPerDay - 1
Emails == {"a@x", "b@x"}
\* the passwords users register with, and the ones tried at login
RegisteredPasswords == {"p"}
Passwords == {"p", "q"}
UserIds == {"u1", "u2"}
TokenPool == {"t1", "t2"}
\* None where a user or the credentials of a request are expected
NoUser == "none"
NoCredentials == "none"
Credentials == TokenPool \cup {NoCredentials}

\* datetime.isoformat(): the day on two digits, then "." and the fraction
\* unless the fraction is zero
isoformat(t) ==
  LET day == t \div TicksPerDay
      fraction == t % TicksPerDay
  IN <<48 + ((day \div 10) % 10), 48 + (day % 10)>>
       \o (IF fraction = 0 THEN <<>> ELSE <<46, 48 + fraction>>)

\* a > b for two TEXT values: the first byte that differs decides, and a
\* text is greater than each of its proper prefixes
TextGreater(a, b) ==
  \E k \in 1..Len(a) :
    /\ \A j \in 1..(k - 1) : j <= Len(b) /\ a[j] = b[j]
    /\ k > Len(b) \/ a[k] > b[k]

\* hashlib.sha256(password.encode()).hexdigest()
hash_password(password) == <<"sha256", password>>

\* datetime.utcnow() + timedelta(days=7)
ExpiryOf(at) == at + SessionLifetime * TicksPerDay

\* Mutant: the session still accepted at the moment it expires.
SessionLiveAtExpiry(expires_at, at) == ~TextGreater(isoformat(at), expires_at)

\* s.expires_at > ?, the parameter being utcnow().isoformat()
SessionLive(expires_at, at) == TextGreater(expires_at, isoformat(at))

\* The row create_session inserts.
create_session(user_id, at) ==
  [user_id |-> user_id, expires_at |-> isoformat(ExpiryOf(at))]

\* SELECT u.* FROM users u JOIN user_sessions s ON u.id = s.user_id
\* WHERE s.token = ? AND s.expires_at > ?: the id of the user, or None
get_user_by_token(token, at) ==
  IF /\ token \in DOMAIN sessions
     /\ SessionLive(sessions[token].expires_at, at)
     /\ \E email \in DOMAIN users : users[email].id = sessions[token].user_id
  THEN sessions[token].user_id
  ELSE NoUser

\* if not credentials: return None
get_current_user(credentials, at) ==
  IF credentials = NoCredentials THEN NoUser
  ELSE get_user_by_token(credentials, at)

\* SELECT * FROM users WHERE email = ? AND password_hash = ?
authenticate_user(email, password) ==
  email \in DOMAIN users
    /\ users[email].password_hash = hash_password(password)

\* secrets.token_urlsafe(n): a value not given out before
Fresh(pool, used) == CHOOSE x \in pool \ used : TRUE

AuthFrame ==
  UNCHANGED <<image, origin, watermarked, flipped, classifier, workers,
              frames, bulk_operations, bulk_task>>

Issue(token, user_id, by) ==
  /\ sessions' = [x \in DOMAIN sessions \cup {token} |->
                    IF x = token THEN create_session(user_id, now)
                    ELSE sessions[x]]
  /\ issued' = [x \in DOMAIN issued \cup {token} |->
                  IF x = token
                  THEN [user_id |-> user_id, at |-> now, by |-> by]
                  ELSE issued[x]]

\* POST /register: create_user, then create_session; an email already
\* there fails the UNIQUE constraint and gives 400
Register(email, password) ==
  /\ UserIds \ {users[e].id : e \in DOMAIN users} # {}
  /\ TokenPool \ DOMAIN sessions # {}
  /\ call' = [op |-> "register"]
  /\ IF email \in DOMAIN users
     THEN /\ ret' = [status_code |-> 400, token |-> NoCredentials]
          /\ UNCHANGED <<users, sessions, issued>>
     ELSE LET user_id == Fresh(UserIds, {users[e].id : e \in DOMAIN users})
              token == Fresh(TokenPool, DOMAIN sessions)
          IN /\ users' = [x \in DOMAIN users \cup {email} |->
                            IF x = email
                            THEN [id |-> user_id,
                                  password_hash |-> hash_password(password),
                                  last_login |-> NoneValue]
                            ELSE users[x]]
             /\ Issue(token, user_id, "register")
             /\ ret' = [status_code |-> 200, token |-> token]
  /\ UNCHANGED now
  /\ AuthFrame

\* POST /login: authenticate_user, which stamps last_login, then
\* create_session; 401 for an unknown email or a wrong password
Login(email, password) ==
  /\ TokenPool \ DOMAIN sessions # {}
  /\ call' = [op |-> "login"]
  /\ IF authenticate_user(email, password)
     THEN LET token == Fresh(TokenPool, DOMAIN sessions)
          IN /\ users' = [users EXCEPT ![email].last_login = isoformat(now)]
             /\ Issue(token, users[email].id, "login")
             /\ ret' = [status_code |-> 200, token |-> token]
     ELSE /\ ret' = [status_code |-> 401, token |-> NoCredentials]
          /\ UNCHANGED <<users, sessions, issued>>
  /\ UNCHANGED now
  /\ AuthFrame

\* A request to a route that depends on get_current_user.
Authenticate(credentials) ==
  /\ call' = [op |-> "auth", token |-> credentials, at |-> now]
  /\ ret' = [user |-> get_current_user(credentials, now)]
  /\ UNCHANGED <<users, sessions, issued, now>>
  /\ AuthFrame

\* POST /logout: require_auth, then a message; no row is touched
Logout(credentials) ==
  /\ call' = [op |-> "logout", token |-> credentials, at |-> now]
  /\ ret' = [status_code |->
               IF get_current_user(credentials, now) = NoUser
               THEN 401 ELSE 200]
  /\ UNCHANGED <<users, sessions, issued, now>>
  /\ AuthFrame

\* Time passes.
Tick ==
  /\ now < MaxTime
  /\ now' = now + 1
  /\ UNCHANGED <<call, ret, users, sessions, issued>>
  /\ AuthFrame

InitAuth ==
  /\ image = Image39
  /\ origin = NoOrigin
  /\ watermarked = FALSE
  /\ call = NoCall
  /\ ret = NoRet
  /\ OthersInit

NextAuth ==
  \/ \E email \in Emails, password \in RegisteredPasswords :
       Register(email, password)
  \/ \E email \in Emails, password \in Passwords : Login(email, password)
  \/ \E credentials \in Credentials : Authenticate(credentials)
  \/ \E credentials \in Credentials : Logout(credentials)
  \/ Tick

SpecAuth == InitAuth /\ [][NextAuth]_vars

\* The user a token authenticates at a time, by what was issued: the user
\* it was issued to until its expiry, nobody from the expiry on, nobody
\* for a token not issued.
Authenticated(token, at) ==
  IF token \in DOMAIN issued /\ at < issued[token].at + SessionLifetime * TicksPerDay
  THEN issued[token].user_id
  ELSE NoUser

(***************************************************************************)
(* C25. A token issued by register or login authenticates the user it was  *)
(* issued to at every time before its expiry, issue time + 7 days, and     *)
(* nobody from the expiry on; a token never issued authenticates nobody;   *)
(* and no operation, logout included, changes this: it holds of every      *)
(* token in every state, of the answer get_current_user gave, and of the   *)
(* status logout answered with.                                            *)
(***************************************************************************)
C25_TokenLifetime ==
  /\ \A token \in TokenPool :
       get_user_by_token(token, now) = Authenticated(token, now)
  /\ call.op = "auth" /\ call.token # NoCredentials
       => ret.user = Authenticated(call.token, call.at)
  /\ call.op = "auth" /\ call.token = NoCredentials => ret.user = NoUser
  /\ call.op = "logout" /\ call.token # NoCredentials
       => (ret.status_code = 200
             <=> Authenticated(call.token, call.at) # NoUser)

\* A token refused at its expiry to the tick, its issue time having a
\* fraction, and the token of another user authenticating that user in the
\* same state.
C25_Witness ==
  /\ call.op = "auth"
  /\ call.token \in DOMAIN issued
  /\ issued[call.token].at % TicksPerDay # 0
  /\ call.at = issued[call.token].at + SessionLifetime * TicksPerDay
  /\ ret.user = NoUser
  /\ \E token \in DOMAIN issued :
       /\ issued[token].user_id # issued[call.token].user_id
       /\ get_user_by_token(token, now) = issued[token].user_id

====
